---- MODULE Spec2Model ----
(***************************************************************************)
(* ChromaDMX tempo session: the native surface behind LinkSession.         *)
(*                                                                         *)
(*   - link_jni.cpp      the Android JNI bridge (nativeCreate ...          *)
(*                       nativeRequestBpm);                                *)
(*   - ABLLinkStubs.c    the iOS implementation of the ABLLink.h API.      *)
(*                                                                         *)
(* Both files are the functions as they are compiled today: every          *)
(* function discards its arguments and returns a constant, and neither     *)
(* file keeps an instance (nativeCreate returns 0L, ABLLinkNew returns     *)
(* NULL).  The model therefore has no provider state: the variables are    *)
(* the handle, the caller's record of the calls it made, and the last      *)
(* call with its arguments and its result.  The blocks of link_jni.cpp     *)
(* that are commented out (the helper calculatePhase, lines 39-58, and the *)
(* SDK calls of each function) are not in the build and are not modelled.  *)
(*                                                                         *)
(* Numbers.  Tempo is in whole BPM.  Quanta are counted in quarter beats   *)
(* (4 = 1.0 beat, 16 = 4.0 beats = one bar).  A double result is kept as   *)
(* a quotient, [n, d] = n/d; the constants returned are 120.0 = 120/1 and  *)
(* 0.0 = 0/1.                                                              *)
(***************************************************************************)
EXTENDS Integers, FiniteSets, Sequences, TLC

VARIABLES
    platform,    \* which native library is linked: "android" or "ios"
    ptr,         \* the opaque handle the caller holds (jlong / ABLLinkRef)
    alive,       \* TRUE between create and destroy
    initialBpm,  \* the tempo the session was constructed with
    enableReq,   \* last flag given to setEnabled/SetActive: "never","on","off"
    prevReq,     \* enableReq before that call
    lastReq,     \* last tempo given to nativeRequestBpm
    seenBpm,     \* result of the latest nativeCaptureBpm
    bpmAtReq,    \* seenBpm at the time of the last nativeRequestBpm
    commits,     \* number of commitAppSessionState calls made so far
    commitsAtReq,\* commits at the entry of the last nativeRequestBpm
    sref,        \* iOS caller's captured session state: "none" or "captured"
    srefBpm,     \* last tempo given to ABLLinkSetTempo on that captured state
    op,          \* the last call
    arg,         \* its arguments
    ret          \* its result

vars == <<platform, ptr, alive, initialBpm, enableReq, prevReq, lastReq, seenBpm,
          bpmAtReq, commits, commitsAtReq, sref, srefBpm, op, arg, ret>>

(***************************************************************************)
(* Bounds of the model.                                                    *)
(***************************************************************************)
MaxTime == 2        \* host times 0..MaxTime
MaxCommits == 2     \* commit calls counted per session

Platforms == {"android", "ios"}
InitBpms == {120, 140}
Bpms == {-5, 0, 120, 140}
Quanta == {-16, -4, 0, 2, 4, 6, 16}
Times == 0..MaxTime

(***************************************************************************)
(* Values.                                                                 *)
(***************************************************************************)
NULL == 0
JNI_FALSE == FALSE

Void == [k |-> "void", b |-> FALSE, n |-> 0, d |-> 0]
Bool(v) == [k |-> "bool", b |-> v, n |-> 0, d |-> 0]
Int32(v) == [k |-> "int", b |-> FALSE, n |-> v, d |-> 1]
Double(num, den) == [k |-> "double", b |-> FALSE, n |-> num, d |-> den]

NoArg == [flag |-> FALSE, x |-> 0, t |-> 0, q |-> 0]
None == [valid |-> FALSE, bpm |-> 0]
Some(v) == [valid |-> TRUE, bpm |-> v]

\* a double result r lies in [0, 1)
InUnit(r) ==
    /\ r.k = "double"
    /\ \/ r.d > 0 /\ 0 <= r.n /\ r.n < r.d
       \/ r.d < 0 /\ r.d < r.n /\ r.n <= 0

(***************************************************************************)
(* link_jni.cpp: what each JNI function returns.                           *)
(***************************************************************************)
nativeCreate(bpm) == 0

\* the function returning JNI_TRUE
nativeIsEnabled_true(p) == TRUE

nativeIsEnabled(p) == JNI_FALSE

nativeCaptureBpm(p) == Double(120, 1)

\* the function returning 1.0, the excluded end of the range
nativeCaptureBeatPhase_one(p, quantum) == Double(1, 1)

nativeCaptureBeatPhase(p, quantum) == Double(0, 1)

nativeCaptureBarPhase(p, quantum) == Double(0, 1)

\* the function returning a peer
nativeNumPeers_one(p) == 1

nativeNumPeers(p) == 0

(***************************************************************************)
(* ABLLinkStubs.c: what each function of the ABLLink.h API returns.        *)
(***************************************************************************)
ABLLinkNew(bpm) == NULL

ABLLinkIsEnabled(ref) == FALSE

ABLLinkGetNumPeers(ref) == 0

ABLLinkCaptureAppSessionState(ref) == NULL

ABLLinkGetTempo(state) == Double(120, 1)

ABLLinkGetBeatAtTime(state, hostTime, quantum) == Double(0, 1)

(***************************************************************************)
(* Construction.                                                           *)
(***************************************************************************)
Fresh(pf, bpm) ==
    /\ platform' = pf
    /\ ptr' = IF pf = "android" THEN nativeCreate(bpm) ELSE ABLLinkNew(bpm)
    /\ alive' = TRUE
    /\ initialBpm' = bpm
    /\ enableReq' = "never"
    /\ prevReq' = "never"
    /\ lastReq' = None
    /\ seenBpm' = None
    /\ bpmAtReq' = None
    /\ commits' = 0
    /\ commitsAtReq' = 0
    /\ sref' = "none"
    /\ srefBpm' = None
    /\ op' = IF pf = "android" THEN "nativeCreate" ELSE "ABLLinkNew"
    /\ arg' = [NoArg EXCEPT !.x = bpm]
    /\ ret' = Int32(ptr')

Init ==
    /\ platform \in Platforms
    /\ initialBpm \in InitBpms
    /\ ptr = IF platform = "android" THEN nativeCreate(initialBpm)
                                      ELSE ABLLinkNew(initialBpm)
    /\ alive = TRUE
    /\ enableReq = "never"
    /\ prevReq = "never"
    /\ lastReq = None
    /\ seenBpm = None
    /\ bpmAtReq = None
    /\ commits = 0
    /\ commitsAtReq = 0
    /\ sref = "none"
    /\ srefBpm = None
    /\ op = IF platform = "android" THEN "nativeCreate" ELSE "ABLLinkNew"
    /\ arg = [NoArg EXCEPT !.x = initialBpm]
    /\ ret = Int32(ptr)

\* the call is recorded; the handle and the platform stay
Called(name, a, r) ==
    /\ op' = name
    /\ arg' = a
    /\ ret' = r
    /\ UNCHANGED <<platform, ptr, initialBpm>>

Android == platform = "android" /\ alive
Ios == platform = "ios" /\ alive

(***************************************************************************)
(* link_jni.cpp: one action per JNI function.                              *)
(***************************************************************************)
JniCreate(bpm) ==
    /\ platform = "android"
    /\ ~alive
    /\ Fresh("android", bpm)

nativeDestroy ==
    /\ Android
    /\ alive' = FALSE
    /\ Called("nativeDestroy", NoArg, Void)
    /\ UNCHANGED <<enableReq, prevReq, lastReq, seenBpm, bpmAtReq, commits,
                   commitsAtReq, sref, srefBpm>>

nativeSetEnabled(enabled) ==
    /\ Android
    /\ enableReq' = IF enabled THEN "on" ELSE "off"
    /\ prevReq' = enableReq
    /\ Called("nativeSetEnabled", [NoArg EXCEPT !.flag = enabled], Void)
    /\ UNCHANGED <<alive, lastReq, seenBpm, bpmAtReq, commits, commitsAtReq,
                   sref, srefBpm>>

JniIsEnabled ==
    /\ Android
    /\ Called("nativeIsEnabled", NoArg, Bool(nativeIsEnabled(ptr)))
    /\ UNCHANGED <<alive, enableReq, prevReq, lastReq, seenBpm, bpmAtReq, commits,
                   commitsAtReq, sref, srefBpm>>

JniCaptureBpm ==
    /\ Android
    /\ Called("nativeCaptureBpm", NoArg, nativeCaptureBpm(ptr))
    /\ seenBpm' = Some(nativeCaptureBpm(ptr).n)
    /\ UNCHANGED <<alive, enableReq, prevReq, lastReq, bpmAtReq, commits, commitsAtReq,
                   sref, srefBpm>>

JniCaptureBeatPhase(quantum) ==
    /\ Android
    /\ Called("nativeCaptureBeatPhase", [NoArg EXCEPT !.q = quantum],
              nativeCaptureBeatPhase(ptr, quantum))
    /\ UNCHANGED <<alive, enableReq, prevReq, lastReq, seenBpm, bpmAtReq, commits,
                   commitsAtReq, sref, srefBpm>>

JniCaptureBarPhase(quantum) ==
    /\ Android
    /\ Called("nativeCaptureBarPhase", [NoArg EXCEPT !.q = quantum],
              nativeCaptureBarPhase(ptr, quantum))
    /\ UNCHANGED <<alive, enableReq, prevReq, lastReq, seenBpm, bpmAtReq, commits,
                   commitsAtReq, sref, srefBpm>>

JniNumPeers ==
    /\ Android
    /\ Called("nativeNumPeers", NoArg, Int32(nativeNumPeers(ptr)))
    /\ UNCHANGED <<alive, enableReq, prevReq, lastReq, seenBpm, bpmAtReq, commits,
                   commitsAtReq, sref, srefBpm>>

nativeRequestBpm(bpm) ==
    /\ Android
    /\ lastReq' = Some(bpm)
    /\ bpmAtReq' = seenBpm
    /\ commitsAtReq' = commits
    /\ commits' = commits       \* no commitAppSessionState call is made
    /\ Called("nativeRequestBpm", [NoArg EXCEPT !.x = bpm], Void)
    /\ UNCHANGED <<alive, enableReq, prevReq, seenBpm, sref, srefBpm>>

(***************************************************************************)
(* ABLLinkStubs.c: one action per function of the API.                     *)
(***************************************************************************)
IosNew(bpm) ==
    /\ platform = "ios"
    /\ ~alive
    /\ Fresh("ios", bpm)

ABLLinkDelete ==
    /\ Ios
    /\ alive' = FALSE
    /\ Called("ABLLinkDelete", NoArg, Void)
    /\ UNCHANGED <<enableReq, prevReq, lastReq, seenBpm, bpmAtReq, commits,
                   commitsAtReq, sref, srefBpm>>

ABLLinkSetActive(active) ==
    /\ Ios
    /\ enableReq' = IF active THEN "on" ELSE "off"
    /\ prevReq' = enableReq
    /\ Called("ABLLinkSetActive", [NoArg EXCEPT !.flag = active], Void)
    /\ UNCHANGED <<alive, lastReq, seenBpm, bpmAtReq, commits, commitsAtReq,
                   sref, srefBpm>>

IosIsEnabled ==
    /\ Ios
    /\ Called("ABLLinkIsEnabled", NoArg, Bool(ABLLinkIsEnabled(ptr)))
    /\ UNCHANGED <<alive, enableReq, prevReq, lastReq, seenBpm, bpmAtReq, commits,
                   commitsAtReq, sref, srefBpm>>

IosGetNumPeers ==
    /\ Ios
    /\ Called("ABLLinkGetNumPeers", NoArg, Int32(ABLLinkGetNumPeers(ptr)))
    /\ UNCHANGED <<alive, enableReq, prevReq, lastReq, seenBpm, bpmAtReq, commits,
                   commitsAtReq, sref, srefBpm>>

IosCapture ==
    /\ Ios
    /\ sref' = "captured"
    /\ srefBpm' = None
    /\ Called("ABLLinkCaptureAppSessionState", NoArg,
              Int32(ABLLinkCaptureAppSessionState(ptr)))
    /\ UNCHANGED <<alive, enableReq, prevReq, lastReq, seenBpm, bpmAtReq, commits,
                   commitsAtReq>>

ABLLinkCommitAppSessionState ==
    /\ Ios
    /\ sref = "captured"
    /\ commits < MaxCommits
    /\ commits' = commits + 1   \* the call reaches the provider, which drops it
    /\ Called("ABLLinkCommitAppSessionState", NoArg, Void)
    /\ UNCHANGED <<alive, enableReq, prevReq, lastReq, seenBpm, bpmAtReq, commitsAtReq,
                   sref, srefBpm>>

IosGetTempo ==
    /\ Ios
    /\ sref = "captured"
    /\ Called("ABLLinkGetTempo", NoArg,
              ABLLinkGetTempo(ABLLinkCaptureAppSessionState(ptr)))
    /\ UNCHANGED <<alive, enableReq, prevReq, lastReq, seenBpm, bpmAtReq, commits,
                   commitsAtReq, sref, srefBpm>>

ABLLinkSetTempo(bpm, hostTime) ==
    /\ Ios
    /\ sref = "captured"
    /\ srefBpm' = Some(bpm)     \* the caller's record; the function keeps nothing
    /\ Called("ABLLinkSetTempo", [NoArg EXCEPT !.x = bpm, !.t = hostTime], Void)
    /\ UNCHANGED <<alive, enableReq, prevReq, lastReq, seenBpm, bpmAtReq, commits,
                   commitsAtReq, sref>>

IosGetBeatAtTime(hostTime, quantum) ==
    /\ Ios
    /\ sref = "captured"
    /\ Called("ABLLinkGetBeatAtTime",
              [NoArg EXCEPT !.t = hostTime, !.q = quantum],
              ABLLinkGetBeatAtTime(ABLLinkCaptureAppSessionState(ptr),
                                   hostTime, quantum))
    /\ UNCHANGED <<alive, enableReq, prevReq, lastReq, seenBpm, bpmAtReq, commits,
                   commitsAtReq, sref, srefBpm>>

Next ==
    \/ \E bpm \in InitBpms : JniCreate(bpm)
    \/ nativeDestroy
    \/ \E enabled \in BOOLEAN : nativeSetEnabled(enabled)
    \/ JniIsEnabled
    \/ JniCaptureBpm
    \/ \E quantum \in Quanta : JniCaptureBeatPhase(quantum)
    \/ \E quantum \in Quanta : JniCaptureBarPhase(quantum)
    \/ JniNumPeers
    \/ \E bpm \in Bpms : nativeRequestBpm(bpm)
    \/ \E bpm \in InitBpms : IosNew(bpm)
    \/ ABLLinkDelete
    \/ \E active \in BOOLEAN : ABLLinkSetActive(active)
    \/ IosIsEnabled
    \/ IosGetNumPeers
    \/ IosCapture
    \/ ABLLinkCommitAppSessionState
    \/ IosGetTempo
    \/ \E bpm \in Bpms, hostTime \in Times : ABLLinkSetTempo(bpm, hostTime)
    \/ \E hostTime \in Times, quantum \in Quanta :
           IosGetBeatAtTime(hostTime, quantum)

Spec == Init /\ [][Next]_vars

PhaseOps == {"nativeCaptureBeatPhase", "nativeCaptureBarPhase"}
EnabledOps == {"nativeIsEnabled", "ABLLinkIsEnabled"}
PeerOps == {"nativeNumPeers", "ABLLinkGetNumPeers"}

\* the provider's own answer to "is the session active"
SessionActive ==
    IF platform = "android" THEN nativeIsEnabled(ptr) ELSE ABLLinkIsEnabled(ptr)

(***************************************************************************)
(* Properties.                                                             *)
(***************************************************************************)

\* C1: for every quantum > 0 and every state of the session, the phase
\* returned by the beat and bar phase reads lies in [0, 1).
C1_PhaseInUnit ==
    (op \in PhaseOps /\ arg.q > 0) => InUnit(ret)

\* a phase read with a positive quantum, on a session whose tempo was set
C1_Witness ==
    /\ op \in PhaseOps
    /\ arg.q > 0
    /\ lastReq.valid
    /\ lastReq.bpm > 0
    /\ ret = Double(0, 1)

\* C2: a phase request with quantum <= 0 is rejected, it never returns an
\* ordinary phase value, a division by zero or NaN.
C2_NonPositiveQuantumRejected ==
    (op \in PhaseOps /\ arg.q <= 0) => ret.k = "error"

C4_CaptureSeesRequestedTempo ==
    (op = "nativeCaptureBpm" /\ lastReq.valid /\ lastReq.bpm > 0) =>
        ret = Double(lastReq.bpm, 1)

\* C5: after setActive(true) the session is Active: isEnabled reports true
\* until a setActive(false).
C5_EnabledAfterSetActiveTrue ==
    (op \in EnabledOps /\ enableReq = "on") => ret.b = TRUE

\* C6: after setActive(false), whatever preceded it, isEnabled reports false
\* until the next setActive(true).
C6_DisabledAfterSetActiveFalse ==
    (op \in EnabledOps /\ enableReq = "off") => ret.b = FALSE

\* setActive(true), then setActive(false), then isEnabled
C6_Witness ==
    /\ op \in EnabledOps
    /\ enableReq = "off"
    /\ prevReq = "on"
    /\ ret.b = FALSE

\* C10: a session on which setActive was never called answers every read
\* (a positive tempo, a phase in [0, 1) for quantum > 0, no peers), and the
\* peer count is 0 whenever the session is not active.
C10_InactiveSessionAnswers ==
    /\ (enableReq = "never" /\ op \in {"nativeCaptureBpm", "ABLLinkGetTempo"}) =>
           (ret.k = "double" /\ ret.d = 1 /\ ret.n > 0)
    /\ (enableReq = "never" /\ op \in PhaseOps /\ arg.q > 0) => InUnit(ret)
    /\ (op \in PeerOps /\ ~SessionActive) => (ret.k = "int" /\ ret.n = 0)

\* a peer count read on a session never activated, after a tempo capture
C10_Witness ==
    /\ enableReq = "never"
    /\ seenBpm.valid
    /\ seenBpm.bpm > 0
    /\ op \in PeerOps
    /\ ret.n = 0

(***************************************************************************)
(* C7 (no torn capture), C8 (tempo change keeps the beat at the change     *)
(* time) and C9 (commit of an unmodified capture changes nothing) have no  *)
(* formula here.  ABLLinkCaptureAppSessionState returns NULL,              *)
(* ABLLinkSetTempo and ABLLinkCommitAppSessionState discard their          *)
(* arguments, and ABLLinkGetTempo / ABLLinkGetBeatAtTime are constants, so *)
(* each of the three would compare an evaluation of a constant operator    *)
(* with itself; the snapshot, the re-anchoring and the commit they speak   *)
(* of belong to the Link SDK, which these files only declare.              *)
(***************************************************************************)

====
